---- MODULE Spec2Model ----
(***************************************************************************)
(* Model of src/app.py: the EcommerceFilterExtractor pipeline              *)
(* (URL Analyzer, Page Fetcher, Filter Fragment Extractor, Filter          *)
(* Interpreter, Pipeline Orchestrator) and the part of main() that         *)
(* validates the URL and calls the pipeline.                               *)
(*                                                                         *)
(* Text is a sequence of one-character strings.  HTML and completion       *)
(* responses are sequences of lexical tokens (see the sections below).     *)
(***************************************************************************)
EXTENDS Integers, Sequences, FiniteSets, TLC

VARIABLES
    analyzer_in,    \* URL Analyzer: the url argument
    analyzer_out,   \* URL Analyzer: the values returned so far (at most one)
    extractor_in,   \* Extractor: the html_content argument (<<>> is None)
    extractor_out,  \* Extractor: the values returned so far (at most one)
    interp_in,      \* Interpreter: what the completion call produced
    interp_out,     \* Interpreter: the values returned so far (at most one)
    pc,             \* where the current invocation of extract_filters stands
    caller,         \* who submitted the URL last: "main", "direct" or "none"
    url,            \* the URL submitted last
    include_html_analysis,  \* the flag submitted last
    result,         \* the envelope of the current (or last) invocation
    html_content,   \* what scrape_page_content returned (<<>> is None)
    prompt,         \* the request built for the completion call (<<>> before)
    log,            \* the calls made since the URL was submitted, in order
    ui,             \* what main showed last
    clock           \* the number of invocations so far, read as the time

urlVars == <<analyzer_in, analyzer_out>>
extVars == <<extractor_in, extractor_out>>
intVars == <<interp_in, interp_out>>
pipeVars == <<pc, caller, url, include_html_analysis, result, html_content,
              prompt, log, ui, clock>>
vars == <<urlVars, extVars, intVars, pipeVars>>

\* the variables of a component that is not exercised
UrlIdle == analyzer_in = <<>> /\ analyzer_out = <<>>
ExtIdle == extractor_in = <<>> /\ extractor_out = <<>>
IntIdle == interp_in = <<>> /\ interp_out = <<>>
PipeIdle ==
    /\ pc = "idle"
    /\ caller = "none"
    /\ url = <<>>
    /\ include_html_analysis = FALSE
    /\ result = <<>>
    /\ html_content = <<>>
    /\ prompt = <<>>
    /\ log = <<>>
    /\ ui = "none"
    /\ clock = 0

(***************************************************************************)
(* Bounds                                                                  *)
(***************************************************************************)
\* number of '&'-separated pieces in a generated query string
MaxPairs == 3
\* number of tokens in a generated HTML document
MaxTokens == 3
\* number of tokens in a generated completion response
MaxResp == 5
\* number of invocations of extract_filters in one run
MaxClock == 2

(***************************************************************************)
(* Generic text helpers                                                    *)
(***************************************************************************)
EmptyDict == [x \in {} |-> x]

Min(a, b) == IF a <= b THEN a ELSE b

\* str.find for a set of characters: least index >= from holding one of cs,
\* Len(s) + 1 when there is none
FindAny(s, cs, from) ==
    LET hits == {i \in from..Len(s) : s[i] \in cs}
    IN  IF hits = {} THEN Len(s) + 1
        ELSE CHOOSE i \in hits : \A j \in hits : i <= j

Contains(s, c) == \E i \in 1..Len(s) : s[i] = c

\* s[from:] of Python, 1-based
Tail_(s, from) == SubSeq(s, from, Len(s))

RECURSIVE Join(_, _)
\* sep.join(parts)
Join(parts, sep) ==
    IF Len(parts) = 0 THEN <<>>
    ELSE IF Len(parts) = 1 THEN parts[1]
    ELSE parts[1] \o sep \o Join(Tail(parts), sep)

RECURSIVE Split(_, _)
\* s.split(c): always at least one part
Split(s, c) ==
    LET i == FindAny(s, {c}, 1)
    IN  IF i > Len(s) THEN <<s>>
        ELSE <<SubSeq(s, 1, i - 1)>> \o Split(Tail_(s, i + 1), c)

\* s.split(c, 1)
Split1(s, c) ==
    LET i == FindAny(s, {c}, 1)
    IN  IF i > Len(s) THEN <<s>>
        ELSE <<SubSeq(s, 1, i - 1), Tail_(s, i + 1)>>

(***************************************************************************)
(* urllib.parse as used by the URL Analyzer (src/app.py 24-40) and by      *)
(* main (src/app.py 293-294)                                               *)
(***************************************************************************)
SchemeChars == {"h", "s", "c", "f", "a", "b", "1", "2", "3", "+"}

\* urlparse(url): scheme, netloc, path, query, fragment, or ValueError when
\* the host has an unbalanced bracket
urlparse(u) ==
    LET i      == FindAny(u, {":"}, 1)
        hasSch == /\ i > 1
                  /\ i <= Len(u)
                  /\ \A j \in 1..(i - 1) : u[j] \in SchemeChars
        scheme == IF hasSch THEN SubSeq(u, 1, i - 1) ELSE <<>>
        u1     == IF hasSch THEN Tail_(u, i + 1) ELSE u
        hasNet == Len(u1) >= 2 /\ u1[1] = "/" /\ u1[2] = "/"
        delim  == FindAny(u1, {"/", "?", "#"}, 3)
        netloc == IF hasNet THEN SubSeq(u1, 3, delim - 1) ELSE <<>>
        u2     == IF hasNet THEN Tail_(u1, delim) ELSE u1
        bad    == hasNet /\ (Contains(netloc, "[") # Contains(netloc, "]"))
        f      == Split1(u2, "#")
        q      == Split1(f[1], "?")
    IN  IF bad THEN [raises |-> TRUE, exc |-> "ValueError"]
        ELSE [raises   |-> FALSE,
              scheme   |-> scheme,
              netloc   |-> netloc,
              path     |-> q[1],
              query    |-> IF Len(q) = 2 THEN q[2] ELSE <<>>,
              fragment |-> IF Len(f) = 2 THEN f[2] ELSE <<>>]

\* nv.replace('+', ' ') followed by unquote (no '%' in the alphabet)
Unquote(s) == [i \in 1..Len(s) |-> IF s[i] = "+" THEN " " ELSE s[i]]

RECURSIVE QslOf(_)
\* parse_qsl over the '&'-separated fields: blank fields, fields without
\* '=' and fields with a blank value are skipped (keep_blank_values=False)
QslOf(fields) ==
    IF Len(fields) = 0 THEN <<>>
    ELSE LET nv   == Split1(fields[1], "=")
             rest == QslOf(Tail(fields))
         IN  IF Len(fields[1]) = 0 THEN rest
             ELSE IF Len(nv) # 2 THEN rest
             ELSE IF Len(nv[2]) = 0 THEN rest
             ELSE <<[name |-> Unquote(nv[1]), value |-> Unquote(nv[2])]>> \o rest

parse_qsl(qs) == QslOf(Split(qs, "&"))

\* the values of one name, in order of occurrence
RECURSIVE ValuesOf(_, _)
ValuesOf(pairs, name) ==
    IF Len(pairs) = 0 THEN <<>>
    ELSE (IF pairs[1].name = name THEN <<pairs[1].value>> ELSE <<>>)
         \o ValuesOf(Tail(pairs), name)

\* parse_qs(qs): name -> list of values
parse_qs(qs) ==
    LET pairs == parse_qsl(qs)
        names == {pairs[i].name : i \in 1..Len(pairs)}
    IN  [n \in names |-> ValuesOf(pairs, n)]

\* mutant of CleanValue: single values are not collapsed
CleanValue_NoCollapse(values) == [scalar |-> FALSE, v |-> values]

\* one entry of clean_params: a scalar for one value, the list otherwise
CleanValue(values) ==
    IF Len(values) = 1 THEN [scalar |-> TRUE, v |-> values[1]]
    ELSE [scalar |-> FALSE, v |-> values]

\* extract_url_parameters(url), given the parse of the URL
extract_url_parameters(u) ==
    LET parsed_url == urlparse(u)
        url_params == parse_qs(parsed_url.query)
    IN  IF parsed_url.raises THEN parsed_url
        ELSE [raises     |-> FALSE,
              domain     |-> parsed_url.netloc,
              path       |-> parsed_url.path,
              parameters |-> [k \in DOMAIN url_params |-> CleanValue(url_params[k])]]

(***************************************************************************)
(* Filter Fragment Extractor (src/app.py 59-80).  HTML is a sequence of    *)
(* tokens [k |-> kind, n |-> number of characters]: whole tags, and runs   *)
(* of plain text.  A value that may be None is a sequence of length 0      *)
(* (None) or 1.                                                            *)
(***************************************************************************)
None == <<>>
Some(x) == <<x>>

TagLen ==
    [div_filter       |-> 20,   \* <div class="filter">
     div_facet        |-> 19,   \* <div class="facet">
     div_filter_facet |-> 26,   \* <div class="filter facet">
     div_plain        |-> 5,    \* <div>
     aside_sidebar    |-> 23,   \* <aside class="sidebar">
     form_filter      |-> 21,   \* <form class="filter">
     select_name      |-> 17,   \* <select name="s">
     input_checkbox   |-> 23,   \* <input type="checkbox">
     input_text       |-> 19,   \* <input type="text">
     ul_category      |-> 21,   \* <ul class="category">
     end_div          |-> 6,    \* </div>
     end_aside        |-> 8,    \* </aside>
     end_form         |-> 7,    \* </form>
     end_select       |-> 9,    \* </select>
     end_ul           |-> 5]    \* </ul>

Tag(k) == [k |-> k, n |-> TagLen[k]]
Text(n) == [k |-> "text", n |-> n]
Space == [k |-> "space", n |-> 1]

\* the seven patterns, in order: the tags a match starts at, the tokens that
\* end the lazy .*?, and whether the end is a lookahead (not part of the match)
filter_patterns ==
    << [open |-> {"div_filter", "div_filter_facet"}, close |-> {"end_div"}, ahead |-> FALSE],
       [open |-> {"aside_sidebar"}, close |-> {"end_aside"}, ahead |-> FALSE],
       [open |-> {"form_filter"}, close |-> {"end_form"}, ahead |-> FALSE],
       [open |-> {"div_facet", "div_filter_facet"}, close |-> {"end_div"}, ahead |-> FALSE],
       [open |-> {"select_name"}, close |-> {"end_select"}, ahead |-> FALSE],
       [open |-> {"input_checkbox"},
        close |-> {"input_checkbox", "input_text", "end_div", "end_form"}, ahead |-> TRUE],
       [open |-> {"ul_category"}, close |-> {"end_ul"}, ahead |-> FALSE] >>

\* least index >= from whose token kind is in kinds, Len(html) + 1 if none
FindKind(html, kinds, from) ==
    LET hits == {i \in from..Len(html) : html[i].k \in kinds}
    IN  IF hits = {} THEN Len(html) + 1
        ELSE CHOOSE i \in hits : \A j \in hits : i <= j

RECURSIVE FindAllFrom(_, _, _)
\* re.findall(pattern, html) from token index from: leftmost, lazy,
\* non-overlapping matches
FindAllFrom(pattern, html, from) ==
    LET i == FindKind(html, pattern.open, from)
        j == FindKind(html, pattern.close, i + 1)
    IN  IF i > Len(html) \/ j > Len(html) THEN <<>>
        ELSE IF pattern.ahead
             THEN <<SubSeq(html, i, j - 1)>> \o FindAllFrom(pattern, html, j)
             ELSE <<SubSeq(html, i, j)>> \o FindAllFrom(pattern, html, j + 1)

\* mutant of findall: a greedy .* runs to the last closing token
findall_Greedy(pattern, html) ==
    LET i == FindKind(html, pattern.open, 1)
        c == {j \in (i + 1)..Len(html) : html[j].k \in pattern.close}
        l == CHOOSE j \in c : \A x \in c : x <= j
    IN  IF i > Len(html) \/ c = {} THEN <<>>
        ELSE <<SubSeq(html, i, IF pattern.ahead THEN l - 1 ELSE l)>>

findall(pattern, html) == FindAllFrom(pattern, html, 1)

RECURSIVE ExtendAll(_, _)
\* the loop of lines 75-77 from pattern index p on
ExtendAll(html, p) ==
    IF p > Len(filter_patterns) THEN <<>>
    ELSE findall(filter_patterns[p], html) \o ExtendAll(html, p + 1)

RECURSIVE CharLen(_)
\* len() of a text
CharLen(s) == IF Len(s) = 0 THEN 0 ELSE s[1].n + CharLen(Tail(s))

RECURSIVE TakeChars(_, _)
\* s[:limit]
TakeChars(s, limit) ==
    IF Len(s) = 0 \/ limit <= 0 THEN <<>>
    ELSE IF s[1].n <= limit THEN <<s[1]>> \o TakeChars(Tail(s), limit - s[1].n)
    ELSE <<[k |-> s[1].k, n |-> limit]>>

\* the slice bound of line 80
ExtractLimit == 8000

\* extract_filter_elements(html_content)
extract_filter_elements(html) ==
    IF html = None \/ html[1] = <<>> THEN <<>>
    ELSE LET extracted_elements == ExtendAll(html[1], 1)
             content == Join(extracted_elements, <<Space>>)
         IN  TakeChars(content, ExtractLimit)

(***************************************************************************)
(* Filter Interpreter, response handling (src/app.py 154-174).  A          *)
(* completion text is a sequence of tokens: "{", "}", "k" (a quoted key    *)
(* with its colon), "1" (a number), "p" (a word of prose), " " (white      *)
(* space).  A parsed JSON value is written [json |-> its tokens].          *)
(***************************************************************************)
RECURSIVE StripLeft(_)
StripLeft(s) == IF Len(s) > 0 /\ s[1] = " " THEN StripLeft(Tail(s)) ELSE s

RECURSIVE StripRight(_)
StripRight(s) ==
    IF Len(s) > 0 /\ s[Len(s)] = " " THEN StripRight(SubSeq(s, 1, Len(s) - 1)) ELSE s

\* str.strip()
Strip(s) == StripRight(StripLeft(s))

\* mutant of re_search_braces: a lazy .*? stops at the first closing brace
re_search_braces_Lazy(content) ==
    LET i == FindAny(content, {"{"}, 1)
        j == FindAny(content, {"}"}, i + 1)
    IN  IF j > Len(content) THEN None ELSE Some(SubSeq(content, i, j))

\* re.search(r'\{.*\}', content, re.DOTALL): from the first opening brace
\* that has a closing brace after it to the last closing brace; None if
\* there is no such pair
re_search_braces(content) ==
    LET i      == FindAny(content, {"{"}, 1)
        closes == {j \in (i + 1)..Len(content) : content[j] = "}"}
        last   == CHOOSE j \in closes : \A x \in closes : x <= j
    IN  IF closes = {} THEN None ELSE Some(SubSeq(content, i, last))

\* the text without its white space
Squeeze(s) == SelectSeq(s, LAMBDA c : c # " ")

RECURSIVE IsJsonValue(_)
\* the JSON grammar over the tokens: a number, {} or an object of one member
IsJsonValue(t) ==
    \/ t = <<"1">>
    \/ t = <<"{", "}">>
    \/ /\ Len(t) >= 4
       /\ t[1] = "{" /\ t[2] = "k" /\ t[Len(t)] = "}"
       /\ IsJsonValue(SubSeq(t, 3, Len(t) - 1))

\* json.loads(text)
json_loads(text) ==
    IF IsJsonValue(Squeeze(text))
    THEN [raises |-> FALSE, value |-> [json |-> Squeeze(text)]]
    ELSE [raises |-> TRUE, exc |-> "JSONDecodeError"]

\* what the completion call can produce: a response whose message content
\* is a text or None, or an exception of the client
CompletionText(c) == [kind |-> "response", content |-> c]
CompletionRaise(e) == [kind |-> "raise", exc |-> e]

\* mutant of InterpreterCatches: only the JSON error is caught
InterpreterCatches_JsonOnly(exc) == exc = "JSONDecodeError"

\* except Exception (line 172) catches every exception raised in the try
InterpreterCatches(exc) == TRUE

\* lines 154-174 given the outcome of the completion call: the value
\* returned, or the exception that leaves analyze_with_openai
interpret(completion) ==
    LET content    == Strip(completion.content[1])
        json_match == re_search_braces(content)
        loaded     == IF json_match # None THEN json_loads(json_match[1])
                      ELSE json_loads(content)
        raised     == IF completion.kind = "raise" THEN completion.exc
                      ELSE IF completion.content = None THEN "AttributeError"
                      ELSE IF loaded.raises THEN loaded.exc
                      ELSE "none"
    IN  IF raised = "none" THEN [raises |-> FALSE, value |-> loaded.value]
        ELSE IF InterpreterCatches(raised)
             THEN [raises |-> FALSE, value |-> [error |-> raised]]
        ELSE [raises |-> TRUE, exc |-> raised]

(***************************************************************************)
(* Page Fetcher (src/app.py 42-57).  The GET yields a 2xx response with a  *)
(* body, a non-2xx status, a transport failure, or an exception that is    *)
(* not a requests.RequestException.                                        *)
(***************************************************************************)
FetchBody(h) == [kind |-> "ok", body |-> h]
FetchStatusError == [kind |-> "status"]
FetchTransportError == [kind |-> "transport"]
FetchRaise(e) == [kind |-> "raise", exc |-> e]

\* scrape_page_content(url) given the outcome of requests.get: the text, or
\* None on a RequestException; any other exception leaves the function
scrape_page_content(outcome) ==
    IF outcome.kind = "ok" THEN [raises |-> FALSE, value |-> Some(outcome.body)]
    ELSE IF outcome.kind \in {"status", "transport"} THEN [raises |-> FALSE, value |-> None]
    ELSE [raises |-> TRUE, exc |-> outcome.exc]

\* truth value of an optional text: None and "" are false
Truthy(opt) == opt # None /\ opt[1] # <<>>

(***************************************************************************)
(* Pipeline Orchestrator (src/app.py 176-209) and its caller main          *)
(* (src/app.py 290-318)                                                    *)
(***************************************************************************)
\* the slice bound of line 93
PromptLimit == 6000

\* lines 178-184
NewEnvelope(u, t) ==
    [url |-> u, timestamp |-> t, url_analysis |-> EmptyDict,
     filters |-> EmptyDict, success |-> FALSE]

SetError(res, msg) ==
    [x \in DOMAIN res \cup {"error"} |-> IF x = "error" THEN msg ELSE res[x]]

\* mutant of WithAnalysis: success is set before the remaining steps
WithAnalysis_EarlySuccess(res, a) ==
    [res EXCEPT !.url_analysis =
                    [domain |-> a.domain, path |-> a.path, parameters |-> a.parameters],
                !.success = TRUE]

\* line 189
WithAnalysis(res, a) ==
    [res EXCEPT !.url_analysis =
        [domain |-> a.domain, path |-> a.path, parameters |-> a.parameters]]

\* mutant of OnUrlOnly: the whole analysis is stored, not its parameters
OnUrlOnly_WholeAnalysis(res) ==
    [res EXCEPT !.filters = [url_parameters |-> res.url_analysis], !.success = TRUE]

\* lines 203-204
OnUrlOnly(res) ==
    [res EXCEPT !.filters = [url_parameters |-> res.url_analysis.parameters],
                !.success = TRUE]

\* lines 198-199
OnInterpreted(res, ai_analysis) ==
    [res EXCEPT !.filters = ai_analysis, !.success = TRUE]

\* mutant of OnNoContent: the failed fetch is not reported
OnNoContent_Silent(res) == res

\* line 201
OnNoContent(res) == SetError(res, "No se pudo obtener el contenido de la pagina")

\* line 207
OnException(res, exc) == SetError(res, exc)

\* mutant of OrchestratorCatches: only ValueError is caught
OrchestratorCatches_ValueError(exc) == exc = "ValueError"

\* except Exception (line 206) catches every exception raised in the try
OrchestratorCatches(exc) == TRUE

\* mutant of UrlIsValid: only the scheme is checked
UrlIsValid_SchemeOnly(parsed) == parsed.scheme # <<>>

\* the check of line 294, negated
UrlIsValid(parsed) == parsed.scheme # <<>> /\ parsed.netloc # <<>>

\* mutant of AfterFetch: a fetch without content is tried again
AfterFetch_Retry(content) == IF Truthy(content) THEN "interpret" ELSE "fetch"

\* lines 195 and 200: where the orchestrator goes after the fetch
AfterFetch(content) == IF Truthy(content) THEN "interpret" ELSE "return"

\* the inputs the pipeline is run on
PipelineUrls ==
    { <<"h", ":", "/", "/", "s", "/", "c", "?", "a", "=", "1", "&", "a", "=", "2",
        "&", "b", "=", "3">>,
      <<"h", ":", "/", "/", "s", "?", "a", "=">>,
      <<"s", "/", "c", "?", "a", "=", "1">>,
      <<"h", ":", "?", "b", "=", "3">>,
      <<"/", "/", "s">>,
      <<"h", ":", "/", "/", "[", "s", "?", "a", "=", "1">> }

FetchOutcomes ==
    { FetchBody(<<>>),
      FetchBody(<<Text(3)>>),
      FetchBody(<<Tag("select_name"), Text(3), Tag("end_select")>>),
      FetchBody(<<Tag("div_filter_facet"), Text(4000), Tag("end_div")>>),
      FetchStatusError, FetchTransportError, FetchRaise("OtherError") }

PipelineCompletions ==
    { CompletionText(Some(<<"{", "k", "1", "}">>)),
      CompletionText(Some(<<"p", " ", "{", "}", " ">>)),
      CompletionText(Some(<<"{", "}", "p", "{", "}">>)),
      CompletionText(Some(<<"p">>)),
      CompletionText(None),
      CompletionRaise("APIError") }

\* the pure steps of the pipeline on these inputs, computed once
ParsedUrl == [u \in PipelineUrls |-> urlparse(u)]
UrlAnalysis == [u \in PipelineUrls |-> extract_url_parameters(u)]
Scraped == [o \in FetchOutcomes |-> scrape_page_content(o)]
FilterElements ==
    [h \in {Scraped[o].value : o \in {x \in FetchOutcomes : ~Scraped[x].raises}}
        |-> extract_filter_elements(h)]
Interpreted == [c \in PipelineCompletions |-> interpret(c)]

\* an exception reaches the handler of line 206
Raise(exc) ==
    IF OrchestratorCatches(exc)
    THEN /\ result' = OnException(result, exc)
         /\ pc' = "return"
    ELSE /\ pc' = "escaped"
         /\ UNCHANGED result

\* extract_filters is entered: lines 176-184
Enter(u, flag, who) ==
    /\ clock < MaxClock
    /\ clock' = clock + 1
    /\ caller' = who
    /\ url' = u
    /\ include_html_analysis' = flag
    /\ result' = NewEnvelope(u, clock + 1)
    /\ html_content' = None
    /\ prompt' = <<>>
    /\ log' = <<>>
    /\ pc' = "analyze"

\* main, lines 290-318: the button was pressed with url u and checkbox flag
MainAnalyze(u, flag) ==
    /\ pc = "idle"
    /\ LET parsed == ParsedUrl[u]
       IN  IF parsed.raises
           THEN /\ ui' = "unexpected_error"
                /\ caller' = "main" /\ url' = u /\ include_html_analysis' = flag
                /\ log' = <<>>
                /\ UNCHANGED <<pc, result, html_content, prompt, clock>>
           ELSE IF ~UrlIsValid(parsed)
           THEN /\ ui' = "invalid_url"
                /\ caller' = "main" /\ url' = u /\ include_html_analysis' = flag
                /\ log' = <<>>
                /\ UNCHANGED <<pc, result, html_content, prompt, clock>>
           ELSE /\ ui' = "analysing"
                /\ Enter(u, flag, "main")
    /\ UNCHANGED <<urlVars, extVars, intVars>>

\* extract_filters(u, flag) called by any other caller of the class
DirectCall(u, flag) ==
    /\ pc = "idle"
    /\ Enter(u, flag, "direct")
    /\ UNCHANGED <<ui, urlVars, extVars, intVars>>

\* lines 188-191 and 202-204
Analyze ==
    /\ pc = "analyze"
    /\ LET url_analysis == UrlAnalysis[url]
       IN  IF url_analysis.raises THEN Raise(url_analysis.exc)
           ELSE IF include_html_analysis
           THEN /\ result' = WithAnalysis(result, url_analysis)
                /\ pc' = "fetch"
           ELSE /\ result' = OnUrlOnly(WithAnalysis(result, url_analysis))
                /\ pc' = "return"
    /\ UNCHANGED <<caller, url, include_html_analysis, html_content, prompt, log,
                   ui, clock, urlVars, extVars, intVars>>

\* line 193 with scrape_page_content, then lines 195 and 200-201
Fetch(outcome) ==
    /\ pc = "fetch"
    /\ log' = Append(log, [op |-> "fetch", outcome |-> outcome])
    /\ LET got == Scraped[outcome]
       IN  IF got.raises
           THEN Raise(got.exc) /\ UNCHANGED html_content
           ELSE /\ html_content' = got.value
                /\ pc' = AfterFetch(got.value)
                /\ result' = IF Truthy(got.value) THEN result ELSE OnNoContent(result)
    /\ UNCHANGED <<caller, url, include_html_analysis, prompt, ui, clock,
                   urlVars, extVars, intVars>>

\* line 197 into analyze_with_openai, lines 84-152: the fragments are
\* extracted and the prompt is built
BuildPrompt ==
    /\ pc = "interpret"
    /\ LET filter_elements == FilterElements[html_content]
       IN  prompt' = Some([url |-> url,
                           url_params |-> result.url_analysis,
                           elements |-> TakeChars(filter_elements, PromptLimit)])
    /\ log' = Append(log, [op |-> "extract"])
    /\ pc' = "complete"
    /\ UNCHANGED <<caller, url, include_html_analysis, result, html_content, ui,
                   clock, urlVars, extVars, intVars>>

\* lines 154-174, then lines 198-199
Complete(completion) ==
    /\ pc = "complete"
    /\ log' = Append(log, [op |-> "completion", outcome |-> completion])
    /\ LET ai_analysis == Interpreted[completion]
       IN  IF ai_analysis.raises THEN Raise(ai_analysis.exc)
           ELSE /\ result' = OnInterpreted(result, ai_analysis.value)
                /\ pc' = "return"
    /\ UNCHANGED <<caller, url, include_html_analysis, html_content, prompt, ui,
                   clock, urlVars, extVars, intVars>>

\* line 209; main then shows the result (lines 330-388)
Return ==
    /\ pc = "return"
    /\ pc' = "idle"
    /\ ui' = IF caller # "main" THEN ui
             ELSE IF result.success THEN "results" ELSE "analysis_error"
    /\ UNCHANGED <<caller, url, include_html_analysis, result, html_content,
                   prompt, log, clock, urlVars, extVars, intVars>>

Init ==
    /\ PipeIdle
    /\ UrlIdle
    /\ ExtIdle
    /\ IntIdle

Next ==
    \/ \E u \in PipelineUrls, flag \in BOOLEAN : MainAnalyze(u, flag)
    \/ \E u \in PipelineUrls, flag \in BOOLEAN : DirectCall(u, flag)
    \/ Analyze
    \/ \E outcome \in FetchOutcomes : Fetch(outcome)
    \/ BuildPrompt
    \/ \E completion \in PipelineCompletions : Complete(completion)
    \/ Return

Spec == Init /\ [][Next]_vars

\* the pipeline is synchronous: once entered, each step is taken, and the
\* two network calls come back (with a response or an exception)
FairSpec ==
    /\ Spec
    /\ WF_vars(Analyze)
    /\ WF_vars(\E outcome \in FetchOutcomes : Fetch(outcome))
    /\ WF_vars(BuildPrompt)
    /\ WF_vars(\E completion \in PipelineCompletions : Complete(completion))
    /\ WF_vars(Return)

(***************************************************************************)
(* The URL Analyzer on its own: extract_url_parameters applied to URLs     *)
(* assembled from a scheme, a host, a path, a query of at most MaxPairs    *)
(* '&'-separated fields, and a fragment.                                   *)
(***************************************************************************)
QueryFields ==
    { <<"a", "=", "1">>, <<"a", "=", "2">>, <<"b", "=", "3">>,
      <<"a", "=">>, <<"b">>, <<>>, <<"a", "=", "1", "=", "+">> }

QueryStrings ==
    { Join(fs, <<"&">>) : fs \in UNION { [1..n -> QueryFields] : n \in 1..MaxPairs } }

UrlHeads ==
    { <<"h", ":", "/", "/", "s", "/", "c">>,
      <<"/", "/", "s">>,
      <<"s", "/", "c">>,
      <<"h", ":", "/", "/", "[", "s">> }

UrlTails == { <<>>, <<"#", "f">> }

AnalyzerUrls ==
    { h \o <<"?">> \o q \o t : h \in UrlHeads, q \in QueryStrings, t \in UrlTails }

InitURL ==
    /\ analyzer_in \in AnalyzerUrls
    /\ analyzer_out = <<>>
    /\ ExtIdle
    /\ IntIdle
    /\ PipeIdle

\* a call of extract_url_parameters(analyzer_in)
AnalyzeURL ==
    /\ analyzer_out = <<>>
    /\ analyzer_out' = <<extract_url_parameters(analyzer_in)>>
    /\ UNCHANGED <<analyzer_in, extVars, intVars, pipeVars>>

NextURL == AnalyzeURL

SpecURL == InitURL /\ [][NextURL]_vars

(***************************************************************************)
(* The Extractor on its own: extract_filter_elements applied to None and   *)
(* to documents of at most MaxTokens tokens.                               *)
(***************************************************************************)
HtmlTokens ==
    { Tag("div_filter"), Tag("div_facet"), Tag("div_filter_facet"), Tag("div_plain"),
      Tag("aside_sidebar"), Tag("form_filter"), Tag("select_name"),
      Tag("input_checkbox"), Tag("input_text"), Tag("ul_category"),
      Tag("end_div"), Tag("end_aside"), Tag("end_form"), Tag("end_select"),
      Tag("end_ul"), Text(3), Text(4000) }

HtmlDocuments == UNION { [1..n -> HtmlTokens] : n \in 0..MaxTokens }

InitExtract ==
    /\ extractor_in \in {None} \cup {Some(h) : h \in HtmlDocuments}
    /\ extractor_out = <<>>
    /\ UrlIdle
    /\ IntIdle
    /\ PipeIdle

\* a call of extract_filter_elements(extractor_in)
ExtractElements ==
    /\ extractor_out = <<>>
    /\ extractor_out' = <<extract_filter_elements(extractor_in)>>
    /\ UNCHANGED <<extractor_in, urlVars, intVars, pipeVars>>

NextExtract == ExtractElements

SpecExtract == InitExtract /\ [][NextExtract]_vars

(***************************************************************************)
(* The Interpreter's response handling on its own: every outcome of the    *)
(* completion call, with response texts of at most MaxResp tokens.         *)
(***************************************************************************)
RespTokens == {"{", "}", "k", "1", "p", " "}

ResponseTexts == UNION { [1..n -> RespTokens] : n \in 0..MaxResp }

Completions ==
    {CompletionText(Some(t)) : t \in ResponseTexts}
        \cup {CompletionText(None), CompletionRaise("APIError")}

InitInterp ==
    /\ interp_in \in {Some(c) : c \in Completions}
    /\ interp_out = <<>>
    /\ UrlIdle
    /\ ExtIdle
    /\ PipeIdle

\* the try block of analyze_with_openai on the outcome interp_in
Interpret ==
    /\ interp_out = <<>>
    /\ interp_out' = <<interpret(interp_in[1])>>
    /\ UNCHANGED <<interp_in, urlVars, extVars, pipeVars>>

NextInterp == Interpret

SpecInterp == InitInterp /\ [][NextInterp]_vars

(***************************************************************************)
(* C6: the parameters mapping, read off the characters of the URL          *)
(***************************************************************************)
\* the text between the first '?' and the first '#' after it
QueryText(u) ==
    LET q == FindAny(u, {"?"}, 1)
        h == FindAny(u, {"#"}, q + 1)
    IN  SubSeq(u, q + 1, h - 1)

EqAt(f) == FindAny(f, {"="}, 1)
FieldKey(f) == Unquote(SubSeq(f, 1, EqAt(f) - 1))
FieldValue(f) == Unquote(Tail_(f, EqAt(f) + 1))

\* the j-th smallest member of a set of integers
Nth(S, j) == CHOOSE i \in S : Cardinality({x \in S : x < i}) = j - 1

\* what the claim expects for the occurrences occ of one key among fields F
ExpectedEntry(F, occ) ==
    IF Cardinality(occ) = 1
    THEN [scalar |-> TRUE, v |-> FieldValue(F[Nth(occ, 1)])]
    ELSE [scalar |-> FALSE,
          v |-> [j \in 1..Cardinality(occ) |-> FieldValue(F[Nth(occ, j)])]]

\* the mapping agrees with the occurrences chosen by Counts(field)
ParametersMatch(Counts(_)) ==
    \A r \in {analyzer_out[i] : i \in 1..Len(analyzer_out)} :
        ~r.raises =>
            LET F    == Split(QueryText(analyzer_in), "&")
                idx  == {i \in 1..Len(F) : Counts(F[i])}
                keys == {FieldKey(F[i]) : i \in idx}
                occ(k) == {i \in idx : FieldKey(F[i]) = k}
            IN  /\ DOMAIN r.parameters = keys
                /\ \A k \in keys : r.parameters[k] = ExpectedEntry(F, occ(k))

IsKeyField(f) == Len(f) > 0
IsValuedField(f) == EqAt(f) < Len(f)

\* C6 as stated: one entry per query key; a key occurring more than once maps
\* to the sequence of all its values in order of occurrence, a key occurring
\* once maps to its single value as a scalar.
C6_AsStated == ParametersMatch(IsKeyField)

\* C6 (amended): the parameters mapping has one entry per query key that has
\* at least one non-blank value; a key with several non-blank values maps to
\* the sequence of those values in order of occurrence, a key with exactly one
\* non-blank value maps to that value as a scalar; blank values and fields
\* without '=' are dropped.
C6_Parameters == ParametersMatch(IsValuedField)

\* ?a=1&a=2&b=3 has been analysed: a is a two-element sequence, b a scalar
C6_Witness ==
    /\ Len(analyzer_out) = 1
    /\ QueryText(analyzer_in) =
         <<"a", "=", "1", "&", "a", "=", "2", "&", "b", "=", "3">>
    /\ ~analyzer_out[1].raises
    /\ analyzer_out[1].parameters =
         (<<"a">> :> [scalar |-> FALSE, v |-> << <<"1">>, <<"2">> >>]) @@
         (<<"b">> :> [scalar |-> TRUE, v |-> <<"3">>])

(***************************************************************************)
(* C7: the extracted text, stated from the matches of the patterns         *)
(***************************************************************************)
\* the token that ends a match of pattern pat starting at i: the first token
\* after i of a closing kind (0 if there is none)
CloseOf(pat, html, i) ==
    IF \E j \in (i + 1)..Len(html) : html[j].k \in pat.close
    THEN CHOOSE j \in (i + 1)..Len(html) :
            /\ html[j].k \in pat.close
            /\ \A x \in (i + 1)..(j - 1) : html[x].k \notin pat.close
    ELSE 0

\* the last token of the match starting at i
LastOf(pat, html, i) ==
    IF pat.ahead THEN CloseOf(pat, html, i) - 1 ELSE CloseOf(pat, html, i)

\* where the matches of pat start: at an opening tag that has an end and
\* lies after every earlier match
MatchStarts(pat, html) ==
    CHOOSE S \in SUBSET (1..Len(html)) :
        \A i \in 1..Len(html) :
            i \in S <=> /\ html[i].k \in pat.open
                        /\ CloseOf(pat, html, i) # 0
                        /\ \A e \in S : e < i => LastOf(pat, html, e) < i

\* all matches, by pattern index and then by position
AllMatches(html) ==
    LET P == {<<p, i>> : p \in 1..7, i \in 1..Len(html)}
        M == {x \in P : x[2] \in MatchStarts(filter_patterns[x[1]], html)}
        Before(x, y) == x[1] < y[1] \/ (x[1] = y[1] /\ x[2] < y[2])
        At(r) == CHOOSE x \in M : Cardinality({y \in M : Before(y, x)}) = r - 1
    IN  [r \in 1..Cardinality(M) |->
            SubSeq(html, At(r)[2], LastOf(filter_patterns[At(r)[1]], html, At(r)[2]))]

\* a is the first CharLen(a) characters of b
IsCharPrefix(a, b) ==
    /\ Len(a) <= Len(b)
    /\ \A m \in 1..Len(a) :
        /\ a[m].k = b[m].k
        /\ IF m < Len(a) THEN a[m].n = b[m].n ELSE a[m].n \in 1..b[m].n

\* C7: the Extractor's result is the first 8000 characters of the matches of
\* the seven patterns joined with single spaces, in pattern order and then
\* match order, without deduplication; it has exactly 8000 characters when
\* the joined text is longer, and is empty when the HTML is empty or absent.
C7_Extracted ==
    \A out \in {extractor_out[i] : i \in 1..Len(extractor_out)} :
        IF extractor_in = None \/ extractor_in[1] = <<>> THEN out = <<>>
        ELSE LET joined == Join(AllMatches(extractor_in[1]), <<Space>>)
             IN  /\ IsCharPrefix(out, joined)
                 /\ CharLen(out) = Min(8000, CharLen(joined))

\* a fragment of more than 4000 characters matched by the first and by the
\* fourth pattern has been extracted twice and cut at 8000 characters
C7_Witness ==
    /\ Len(extractor_out) = 1
    /\ extractor_in = Some(<<Tag("div_filter_facet"), Text(4000), Tag("end_div")>>)
    /\ CharLen(extractor_out[1]) = 8000
    /\ Len(extractor_out[1]) = 6

(***************************************************************************)
(* C8: which part of the response is parsed                                *)
(***************************************************************************)
\* t, free of white space, is a JSON text: d nested one-member objects
\* around a number or around {}
IsJsonText(t) ==
    \E d \in 0..Len(t) : \E core \in {<<"1">>, <<"{", "}">>} :
        /\ Len(t) = 3 * d + Len(core)
        /\ \A x \in 1..d : t[2 * x - 1] = "{" /\ t[2 * x] = "k"
        /\ SubSeq(t, 2 * d + 1, 2 * d + Len(core)) = core
        /\ \A x \in 1..d : t[2 * d + Len(core) + x] = "}"

\* the brace-delimited JSON objects of a text, as index pairs
ObjectsIn(text) ==
    {x \in (1..Len(text)) \X (1..Len(text)) :
        /\ x[1] < x[2]
        /\ text[x[1]] = "{" /\ text[x[2]] = "}"
        /\ IsJsonText(Squeeze(SubSeq(text, x[1], x[2])))}

FirstObject(text) ==
    LET x == CHOOSE x \in ObjectsIn(text) : \A y \in ObjectsIn(text) : x[1] <= y[1]
    IN  SubSeq(text, x[1], x[2])

Braced(text) ==
    \E i, j \in 1..Len(text) : i < j /\ text[i] = "{" /\ text[j] = "}"

\* the value json.loads gives for a text, or the error object
Parsed(text) ==
    IF IsJsonText(Squeeze(text)) THEN [json |-> Squeeze(text)]
    ELSE [error |-> "JSONDecodeError"]

\* the response texts handled so far, with the values returned for them
InterpretedTexts ==
    {o \in {interp_out[i] : i \in 1..Len(interp_out)} :
        interp_in[1].kind = "response" /\ interp_in[1].content # None}

\* C8 as stated: whenever the response contains a brace-delimited JSON
\* object, the first such object is parsed and returned; without a braced
\* substring the whole trimmed response is parsed.
C8_AsStated ==
    \A o \in InterpretedTexts :
        LET text == interp_in[1].content[1]
        IN  /\ ~o.raises
            /\ ObjectsIn(text) # {} => o.value = [json |-> Squeeze(FirstObject(text))]
            /\ ~Braced(text) => o.value = Parsed(text)

\* C8 (amended): the Interpreter parses the span from the first opening brace
\* to the last closing brace of the response; it returns the object when
\* that whole span is one JSON object and a structured error object
\* otherwise (so a response with two objects, or with a brace in trailing
\* prose, gives the error object); only when no opening brace is followed by
\* a closing brace does it fall back to parsing the entire trimmed response.
C8_ParsedSpan ==
    \A o \in InterpretedTexts :
        LET text   == interp_in[1].content[1]
            opens  == {i \in 1..Len(text) : text[i] = "{"}
            closes == {j \in 1..Len(text) : text[j] = "}"}
            first  == CHOOSE i \in opens : \A x \in opens : i <= x
            last   == CHOOSE j \in closes : \A x \in closes : x <= j
        IN  /\ ~o.raises
            /\ Braced(text) => o.value = Parsed(SubSeq(text, first, last))
            /\ ~Braced(text) => o.value = Parsed(text)

\* a response holding two JSON objects has been handled: the span from the
\* first to the last brace is not JSON and the error object is returned
C8_Witness ==
    /\ Len(interp_out) = 1
    /\ interp_in = Some(CompletionText(Some(<<"{", "}", "p", "{", "}">>)))
    /\ interp_out[1] = [raises |-> FALSE, value |-> [error |-> "JSONDecodeError"]]

(***************************************************************************)
(* Claims about the orchestrator.  The envelope is returned when           *)
(* pc = "return"; log holds the calls made since the URL was submitted.    *)
(***************************************************************************)
Returning == pc = "return"

CallsOf(op) == {i \in 1..Len(log) : log[i].op = op}

\* the URL has a scheme: a non-empty run of scheme characters before a colon
HasScheme(u) ==
    \E i \in 2..Len(u) : u[i] = ":" /\ \A j \in 1..(i - 1) : u[j] \in SchemeChars

\* the URL has a host: "//" after the scheme, followed by a host character
HasHost(u) ==
    \E r \in 1..Len(u) :
        /\ r = 1 \/ (u[r - 1] = ":" /\ \A j \in 1..(r - 2) : u[j] \in SchemeChars)
        /\ r + 2 <= Len(u)
        /\ u[r] = "/" /\ u[r + 1] = "/"
        /\ u[r + 2] \notin {"/", "?", "#"}

LacksSchemeOrHost(u) == ~HasScheme(u) \/ ~HasHost(u)

\* C1 as stated: whoever calls extract_filters in full mode with a URL
\* lacking a scheme or a host, no fetch and no completion call is made.
C1_AsStated ==
    (caller # "none" /\ include_html_analysis /\ LacksSchemeOrHost(url))
        => CallsOf("fetch") = {} /\ CallsOf("completion") = {}

\* C1 (amended): the check for a scheme and a host is made by main, the
\* caller of extract_filters, not by extract_filters: for a URL lacking a
\* scheme or a host main shows the invalid-URL message and never enters
\* extract_filters, so no fetch and no completion call is made.
C1_MainRejects ==
    (caller = "main" /\ LacksSchemeOrHost(url))
        => pc = "idle" /\ ui = "invalid_url" /\ log = <<>>

\* main has rejected a URL without a host in full mode
C1_Witness ==
    /\ caller = "main"
    /\ include_html_analysis
    /\ url = <<"h", ":", "?", "b", "=", "3">>
    /\ ui = "invalid_url"
    /\ log = <<>>

\* C2 as stated: in URL-only mode no call is made and the envelope returned
\* is successful, without error, with filters = {url_parameters: P}.
C2_AsStated ==
    (caller # "none" /\ ~include_html_analysis) =>
        /\ log = <<>>
        /\ Returning =>
            /\ result.success
            /\ "error" \notin DOMAIN result
            /\ result.filters =
                 [url_parameters |-> extract_url_parameters(url).parameters]

\* C2 (amended): in URL-only mode no fetch and no completion call is made;
\* when the URL Analyzer accepts the URL the envelope has success=true, no
\* error field and filters = {url_parameters: P}; when the Analyzer raises
\* (a host with an unbalanced bracket) the envelope has success=false, an
\* error field and empty filters.
C2_UrlOnly ==
    (caller # "none" /\ ~include_html_analysis) =>
        /\ log = <<>>
        /\ Returning =>
            IF urlparse(url).raises
            THEN /\ ~result.success
                 /\ "error" \in DOMAIN result
                 /\ result.filters = EmptyDict
            ELSE /\ result.success
                 /\ "error" \notin DOMAIN result
                 /\ result.filters =
                      [url_parameters |-> extract_url_parameters(url).parameters]

\* a URL-only invocation returns the parameters of ?a=1&a=2&b=3
C2_Witness ==
    /\ Returning
    /\ ~include_html_analysis
    /\ result.success
    /\ result.filters =
         [url_parameters |->
            (<<"a">> :> [scalar |-> FALSE, v |-> << <<"1">>, <<"2">> >>]) @@
            (<<"b">> :> [scalar |-> TRUE, v |-> <<"3">>])]

\* the fetch gave no content: a transport error, a non-2xx status, or an
\* empty body
NoContent(outcome) ==
    \/ outcome.kind \in {"status", "transport"}
    \/ outcome.kind = "ok" /\ outcome.body = <<>>

\* C3: in full mode, when the fetch yields no content, the envelope returned
\* has success=false, an error string, empty filters, url_analysis holding
\* the Analyzer's result, and the Interpreter was never invoked.
C3_NoContent ==
    (Returning /\ include_html_analysis /\ Len(log) >= 1 /\ NoContent(log[1].outcome)) =>
        /\ ~result.success
        /\ "error" \in DOMAIN result
        /\ result.error = "No se pudo obtener el contenido de la pagina"
        /\ result.filters = EmptyDict
        /\ LET a == extract_url_parameters(url)
           IN  result.url_analysis =
                 [domain |-> a.domain, path |-> a.path, parameters |-> a.parameters]
        /\ CallsOf("completion") = {}

\* a 2xx response with an empty body has been turned into a failed envelope
C3_Witness ==
    /\ Returning
    /\ include_html_analysis
    /\ log = <<[op |-> "fetch", outcome |-> FetchBody(<<>>)]>>
    /\ "error" \in DOMAIN result
    /\ ~result.success

\* the Interpreter fails on this outcome of the completion call: the API
\* raised, there is no text, or what is parsed is not JSON
InterpreterFails(c) ==
    \/ c.kind = "raise"
    \/ c.content = None
    \/ LET text   == c.content[1]
           closes == {j \in 1..Len(text) : text[j] = "}"}
           first  == FindAny(text, {"{"}, 1)
           last   == CHOOSE j \in closes : \A x \in closes : x <= j
       IN  IF Braced(text) THEN ~IsJsonText(Squeeze(SubSeq(text, first, last)))
           ELSE ~IsJsonText(Squeeze(text))

\* C4: in full mode, when the fetch returned content and the Interpreter
\* fails, the envelope's filters is an error object {error: message},
\* success is true and there is no top-level error field.
C4_InterpreterError ==
    (Returning /\ Len(log) = 3 /\ InterpreterFails(log[3].outcome)) =>
        /\ DOMAIN result.filters = {"error"}
        /\ result.filters.error \in {"APIError", "AttributeError", "JSONDecodeError"}
        /\ result.success
        /\ "error" \notin DOMAIN result

\* prose instead of JSON has come back and is reported inside filters
C4_Witness ==
    /\ Returning
    /\ Len(log) = 3
    /\ log[3].outcome = CompletionText(Some(<<"p">>))
    /\ result.filters = [error |-> "JSONDecodeError"]
    /\ result.success

WellFormed(res) ==
    /\ {"url", "timestamp", "url_analysis", "filters", "success"} \subseteq DOMAIN res
    /\ res.url = url
    /\ res.timestamp = clock
    /\ res.success \in BOOLEAN

C9_CallOrder ==
    /\ Len(log) <= 3
    /\ \A i \in 1..Len(log) : log[i].op = <<"fetch", "extract", "completion">>[i]
    /\ Len(log) >= 2 => log[1].outcome.kind = "ok" /\ log[1].outcome.body # <<>>
    /\ Len(log) >= 2 =>
         /\ html_content = Some(log[1].outcome.body)
         /\ prompt # <<>>
    /\ ~include_html_analysis => log = <<>>

\* a full-mode invocation has made its fetch, its extraction and its
\* completion call and returns
C9_Witness ==
    /\ Returning
    /\ Len(log) = 3
    /\ log[3].outcome.kind = "raise"

\* C10: in every envelope returned, the top-level error field is present
\* exactly when success is false.
C10_ErrorIffFailure ==
    Returning => ("error" \in DOMAIN result <=> ~result.success)

\* the Analyzer's exception has been caught and the envelope is returned
\* with an error and success=false
C10_Witness ==
    /\ Returning
    /\ "error" \in DOMAIN result
    /\ result.error = "ValueError"
    /\ ~result.success

====
